---- MODULE Spec2Model ----
(***************************************************************************)
(* Model of the spike-train generators and the binning routine of          *)
(* neurotools.py.                                                          *)
(*                                                                         *)
(* Times are integers counted in ticks; the grid step dt is a positive     *)
(* number of ticks, so that intervals shorter than dt exist.  A draw from   *)
(* the random source is a choice from a bounded set.                      *)
(***************************************************************************)
EXTENDS Integers, Sequences, FiniteSets, TLC

\* ---------------------------------------------------------------- bounds
MaxDt == 2          \* grid steps dt range over 1..MaxDt
MaxDura == 5        \* durations of poisson_spikes range over 1..MaxDura
MaxInterval == 6    \* random.exponential draws range over 1..MaxInterval
MaxTime == 4        \* spike times of input trains range over 0..MaxTime
MaxLen == 3         \* input trains hold at most MaxLen spikes
MaxJit == 1         \* random.normal draws range over -MaxJit..MaxJit
MaxSigma == 1       \* jitter standard deviations range over 0..MaxSigma
MaxN == 3           \* population sizes range over 0..MaxN
SDen == 3           \* synchrony fractions are the multiples s/SDen, s in -1..SDen+1
MaxSyncDura == 3    \* durations of sync_inp range over 1..MaxSyncDura
MaxGenInterval == 2 \* random.exponential draws of sync_inp_gen range over 1..MaxGenInterval
MaxReads == 3       \* values read from the generators of one group
MaxBin == 3         \* bin widths of PSTH range over 1..MaxBin
MaxRows == 2        \* a collection given to PSTH holds at most MaxRows trains
MaxW == 3           \* slope and averaging windows w range over 1..MaxW
MaxTrace == 4       \* potential traces hold at most MaxTrace samples
MaxPotential == 2   \* samples of a potential trace range over 1..MaxPotential

VARIABLES
    \* poisson_spikes(dura, rate, dt)
    ps_dura, ps_dt, ps_spiketrain, ps_pc,
    \* add_gauss_jitter(spiketrain, jitter, dt)
    gj_spiketrain, gj_jitter, gj_dt, gj_intervals, gj_jspiketrain, gj_result, gj_pc,
    \* sync_inp(n, rate, s, sigma, dura, dt); si_calls logs, per returned train,
    \* the call that produced it
    si_n, si_s, si_sigma, si_dura, si_dt, si_warned, si_n_ident, si_st_ident,
    si_templates, si_spiketrains, si_calls, si_pc,
    \* SynchronousInputGroup: sg_gens maps each generator object to its frame
    \* (n, jitter, t, prev_t, iter), sg_spiketrains is the returned list of
    \* references to generator objects, sg_log the (position, value) pairs
    \* read from that list so far
    sg_n, sg_sync, sg_jitter, sg_dt, sg_warned, sg_n_ident, sg_gens,
    sg_spiketrains, sg_log,
    \* times_to_bin(spikes, dt, duration)
    tb_spikes, tb_dt, tb_duration, tb_bintimes, tb_pc,
    \* PSTH(spikes, bin, dt, duration)
    ph_spikes, ph_bin, ph_dt, ph_duration, ph_psth, ph_pc,
    \* firing_slope(mem, spiketrain, dt, w)
    fs_spiketrain, fs_dt, fs_w, fs_windows, fs_pc,
    \* norm_firing_slope(mem, spiketrain, th, tau, dt, w)
    nf_spiketrain, nf_dt, nf_w, nf_kept, nf_pc,
    \* CV2(spiketrain); cv_result is the returned fraction <<numerator, denominator>>
    cv_spiketrain, cv_result, cv_pc,
    \* sta(v, spiketrain, w, dt)
    sa_v, sa_spiketrain, sa_w, sa_dt, sa_wins, sa_pc

poissonVars == <<ps_dura, ps_dt, ps_spiketrain, ps_pc>>
jitterVars == <<gj_spiketrain, gj_jitter, gj_dt, gj_intervals, gj_jspiketrain,
               gj_result, gj_pc>>
syncVars == <<si_n, si_s, si_sigma, si_dura, si_dt, si_warned, si_n_ident,
             si_st_ident, si_templates, si_spiketrains, si_calls, si_pc>>
groupVars == <<sg_n, sg_sync, sg_jitter, sg_dt, sg_warned, sg_n_ident, sg_gens,
              sg_spiketrains, sg_log>>
binVars == <<tb_spikes, tb_dt, tb_duration, tb_bintimes, tb_pc>>
psthVars == <<ph_spikes, ph_bin, ph_dt, ph_duration, ph_psth, ph_pc>>
slopeVars == <<fs_spiketrain, fs_dt, fs_w, fs_windows, fs_pc>>
normVars == <<nf_spiketrain, nf_dt, nf_w, nf_kept, nf_pc>>
cv2Vars == <<cv_spiketrain, cv_result, cv_pc>>
staVars == <<sa_v, sa_spiketrain, sa_w, sa_dt, sa_wins, sa_pc>>
generatorVars == <<poissonVars, jitterVars, syncVars, groupVars, binVars>>
analysisVars == <<psthVars, slopeVars, normVars, cv2Vars, staVars>>
vars == <<generatorVars, analysisVars>>

\* ------------------------------------------------------- numpy helpers
Last(s) == s[Len(s)]

\* s[:-1]
DropLast(s) == SubSeq(s, 1, Len(s) - 1)

\* min(s) of a non-empty sequence
Min(s) == CHOOSE m \in {s[i] : i \in 1..Len(s)} : \A i \in 1..Len(s) : m <= s[i]

\* max(s) of a non-empty sequence
Max(s) == CHOOSE m \in {s[i] : i \in 1..Len(s)} : \A i \in 1..Len(s) : m >= s[i]

\* numpy.diff: the Len(s)-1 consecutive differences (empty for Len(s) <= 1)
Diff(s) == [i \in 1..(IF Len(s) = 0 THEN 0 ELSE Len(s) - 1) |-> s[i + 1] - s[i]]

RECURSIVE SumTo(_, _)
SumTo(s, i) == IF i = 0 THEN 0 ELSE SumTo(s, i - 1) + s[i]

\* numpy.cumsum: running sums, same length as s
CumSum(s) == [i \in 1..Len(s) |-> SumTo(s, i)]

\* ndarray.sort(): ascending order
Sort(s) == SortSeq(s, LAMBDA a, b : a < b)

\* where(s == min(s))[0][0]: the first position holding the minimum
FirstMinIndex(s) == CHOOSE i \in 1..Len(s) :
                        /\ s[i] = Min(s)
                        /\ \A j \in 1..(i - 1) : s[j] # Min(s)

\* A spike train of the data model: strictly increasing times
StrictlyIncreasing(s) == \A i \in 1..(Len(s) - 1) : s[i] < s[i + 1]

GapsAtLeast(s, d) == \A i \in 1..(Len(s) - 1) : s[i + 1] - s[i] >= d

SpikeTrains(maxT, maxN) ==
    {s \in UNION {[1..k -> 0..maxT] : k \in 0..maxN} : StrictlyIncreasing(s)}

ClampMissing(interval, dt) == interval

\* the clamp "if interval < dt: interval = dt" applied to a drawn interval
Clamp(interval, dt) == IF interval < dt THEN dt ELSE interval

\* ============================================================ poisson_spikes
PoissonIdle == /\ ps_dura = 0
               /\ ps_dt = 0
               /\ ps_spiketrain = <<>>
               /\ ps_pc = "idle"

\* entry of poisson_spikes: spiketrain = []
PoissonInit == /\ ps_dura \in 1..MaxDura
               /\ ps_dt \in 1..MaxDt
               /\ ps_spiketrain = <<>>
               /\ ps_pc = "first"

\* one pass of "while len(spiketrain) == 0"
PoissonFirst ==
    /\ ps_pc = "first"
    /\ Len(ps_spiketrain) = 0
    /\ \E drawn \in 1..MaxInterval :
         LET newinterval == Clamp(drawn, ps_dt) IN
           IF newinterval < ps_dura
           THEN /\ ps_spiketrain' = <<newinterval>>
                /\ ps_pc' = "accum"
           ELSE UNCHANGED <<ps_spiketrain, ps_pc>>
    /\ UNCHANGED <<ps_dura, ps_dt>>
    /\ UNCHANGED <<jitterVars, syncVars, groupVars, binVars>>
    /\ UNCHANGED analysisVars

\* one pass of "while spiketrain[-1] < dura"
PoissonAccumulate ==
    /\ ps_pc = "accum"
    /\ Last(ps_spiketrain) < ps_dura
    /\ \E drawn \in 1..MaxInterval :
         LET newinterval == Clamp(drawn, ps_dt) IN
           ps_spiketrain' = Append(ps_spiketrain, Last(ps_spiketrain) + newinterval)
    /\ UNCHANGED <<ps_dura, ps_dt, ps_pc>>
    /\ UNCHANGED <<jitterVars, syncVars, groupVars, binVars>>
    /\ UNCHANGED analysisVars

\* loop exit: spiketrain = spiketrain[:-1]; return spiketrain
PoissonReturn ==
    /\ ps_pc = "accum"
    /\ ~(Last(ps_spiketrain) < ps_dura)
    /\ ps_spiketrain' = DropLast(ps_spiketrain)
    /\ ps_pc' = "done"
    /\ UNCHANGED <<ps_dura, ps_dt>>
    /\ UNCHANGED <<jitterVars, syncVars, groupVars, binVars>>
    /\ UNCHANGED analysisVars

\* ========================================================== add_gauss_jitter
JitterIdle == /\ gj_spiketrain = <<>>
              /\ gj_jitter = 0
              /\ gj_dt = 0
              /\ gj_intervals = <<>>
              /\ gj_jspiketrain = <<>>
              /\ gj_result = <<>>
              /\ gj_pc = "idle"

JitterInit == /\ gj_spiketrain \in SpikeTrains(MaxTime, MaxLen)
              /\ gj_jitter \in 0..MaxSigma
              /\ gj_dt \in 1..MaxDt
              /\ gj_intervals = <<>>
              /\ gj_jspiketrain = <<>>
              /\ gj_result = <<>>
              /\ gj_pc = "call"

\* "if (jitter == 0*second): return spiketrain"
JitterIdentity ==
    /\ gj_pc = "call"
    /\ gj_jitter = 0
    /\ gj_result' = gj_spiketrain
    /\ gj_pc' = "done"
    /\ UNCHANGED <<gj_spiketrain, gj_jitter, gj_dt, gj_intervals, gj_jspiketrain>>
    /\ UNCHANGED <<poissonVars, syncVars, groupVars, binVars>>
    /\ UNCHANGED analysisVars

\* spiketrain + random.normal(0, jitter, len(spiketrain)); sort(); diff()
Perturbed(spiketrain, variates) ==
    Sort([i \in 1..Len(spiketrain) |-> spiketrain[i] + variates[i]])

JitterPerturb ==
    /\ gj_pc = "call"
    /\ gj_jitter # 0
    /\ \E variates \in [1..Len(gj_spiketrain) -> (-MaxJit)..MaxJit] :
         /\ gj_jspiketrain' = Perturbed(gj_spiketrain, variates)
         /\ gj_intervals' = Diff(Perturbed(gj_spiketrain, variates))
    /\ gj_pc' = "loop"
    /\ UNCHANGED <<gj_spiketrain, gj_jitter, gj_dt, gj_result>>
    /\ UNCHANGED <<poissonVars, syncVars, groupVars, binVars>>
    /\ UNCHANGED analysisVars

\* min(intervals) of an empty array raises ValueError
JitterRaise ==
    /\ gj_pc = "loop"
    /\ Len(gj_intervals) = 0
    /\ gj_pc' = "error"
    /\ UNCHANGED <<gj_spiketrain, gj_jitter, gj_dt, gj_intervals, gj_jspiketrain,
                   gj_result>>
    /\ UNCHANGED <<poissonVars, syncVars, groupVars, binVars>>
    /\ UNCHANGED analysisVars

TooCloseOffByOne(intervals, dt) == Min(intervals) < dt - 1

\* the loop test "min(intervals) < dt/second"
TooClose(intervals, dt) == Min(intervals) < dt

\* one pass of the loop: intervals[index] += dt/second
JitterCorrect ==
    /\ gj_pc = "loop"
    /\ Len(gj_intervals) > 0
    /\ TooClose(gj_intervals, gj_dt)
    /\ LET index == FirstMinIndex(gj_intervals) IN
         gj_intervals' = [gj_intervals EXCEPT ![index] = @ + gj_dt]
    /\ UNCHANGED <<gj_spiketrain, gj_jitter, gj_dt, gj_jspiketrain, gj_result,
                   gj_pc>>
    /\ UNCHANGED <<poissonVars, syncVars, groupVars, binVars>>
    /\ UNCHANGED analysisVars

\* loop exit: jspiketrain = cumsum(intervals); return jspiketrain
JitterReturn ==
    /\ gj_pc = "loop"
    /\ Len(gj_intervals) > 0
    /\ ~TooClose(gj_intervals, gj_dt)
    /\ gj_result' = CumSum(gj_intervals)
    /\ gj_pc' = "done"
    /\ UNCHANGED <<gj_spiketrain, gj_jitter, gj_dt, gj_intervals, gj_jspiketrain>>
    /\ UNCHANGED <<poissonVars, syncVars, groupVars, binVars>>
    /\ UNCHANGED analysisVars

\* ================================================================== sync_inp
\* The trains a call poisson_spikes(dura, rate, dt) can return: the lists
\* PoissonReturn leaves in ps_spiketrain (none when dura <= dt, where the
\* first loop never ends).
PoissonResults(dura, dt) ==
    {st \in SpikeTrains(dura - 1, dura) :
        /\ Len(st) > 0
        /\ st[1] >= dt
        /\ GapsAtLeast(st, dt)}

\* the loop of add_gauss_jitter run to its exit
RECURSIVE Spaced(_, _)
Spaced(intervals, dt) ==
    IF TooClose(intervals, dt)
    THEN Spaced([intervals EXCEPT ![FirstMinIndex(intervals)] = @ + dt], dt)
    ELSE intervals

\* a whole call add_gauss_jitter(spiketrain, jitter, dt) under the given
\* normal variates: the returned list, or the ValueError of min([])
AddGaussJitter(spiketrain, jitter, variates, dt) ==
    IF jitter = 0
    THEN [raised |-> FALSE, value |-> spiketrain]
    ELSE LET intervals == Diff(Perturbed(spiketrain, variates)) IN
           IF Len(intervals) = 0
           THEN [raised |-> TRUE, value |-> <<>>]
           ELSE [raised |-> FALSE, value |-> CumSum(Spaced(intervals, dt))]

SynchronyFractions == (-1)..(SDen + 1)

\* "if not(0 <= s <= 1)"
OutOfRange(s) == ~(0 <= s /\ s <= SDen)

\* the value sync_inp gives an out-of-range s: "s = 1"
SyncInpDefault == SDen

\* int(floor(n*s)) for s = num/SDen
NIdent(n, num) == (n * num) \div SDen

SyncInpIdle == /\ si_n = 0
               /\ si_s = 0
               /\ si_sigma = 0
               /\ si_dura = 0
               /\ si_dt = 0
               /\ si_warned = FALSE
               /\ si_n_ident = 0
               /\ si_st_ident = <<>>
               /\ si_templates = 0
               /\ si_spiketrains = <<>>
               /\ si_calls = <<>>
               /\ si_pc = "idle"

SyncInpInit == /\ si_n \in 0..MaxN
               /\ si_s \in SynchronyFractions
               /\ si_sigma \in 0..MaxSigma
               /\ si_dura \in 1..MaxSyncDura
               /\ si_dt \in 1..MaxDt
               /\ si_warned = FALSE
               /\ si_n_ident = 0
               /\ si_st_ident = <<>>
               /\ si_templates = 0
               /\ si_spiketrains = <<>>
               /\ si_calls = <<>>
               /\ si_pc = "call"

\* range check, n_ident, spiketrains = [], st_ident = poisson_spikes(...)
SyncInpTemplate ==
    /\ si_pc = "call"
    /\ LET s == IF OutOfRange(si_s) THEN SyncInpDefault ELSE si_s IN
         /\ si_warned' = OutOfRange(si_s)
         /\ si_s' = s
         /\ si_n_ident' = NIdent(si_n, s)
    /\ si_spiketrains' = <<>>
    /\ si_st_ident' \in PoissonResults(si_dura, si_dt)
    /\ si_templates' = si_templates + 1
    /\ si_pc' = "loops"
    /\ UNCHANGED <<si_n, si_sigma, si_dura, si_dt, si_calls>>
    /\ UNCHANGED <<poissonVars, jitterVars, groupVars, binVars>>
    /\ UNCHANGED analysisVars

\* one pass of "for i in range(n_ident)"
SyncInpJitter ==
    /\ si_pc = "loops"
    /\ Len(si_spiketrains) < si_n_ident
    /\ \E variates \in [1..Len(si_st_ident) -> (-MaxJit)..MaxJit] :
         LET jittered == AddGaussJitter(si_st_ident, si_sigma, variates, si_dt) IN
           IF jittered.raised
           THEN /\ si_pc' = "error"
                /\ UNCHANGED <<si_spiketrains, si_calls>>
           ELSE /\ si_spiketrains' = Append(si_spiketrains, jittered.value)
                /\ si_calls' = Append(si_calls, [fn |-> "add_gauss_jitter",
                                                 arg |-> si_st_ident])
                /\ UNCHANGED si_pc
    /\ UNCHANGED <<si_n, si_s, si_sigma, si_dura, si_dt, si_warned, si_n_ident,
                   si_st_ident, si_templates>>
    /\ UNCHANGED <<poissonVars, jitterVars, groupVars, binVars>>
    /\ UNCHANGED analysisVars

\* one pass of "for i in range(n_ident, n)"
SyncInpPoisson ==
    /\ si_pc = "loops"
    /\ Len(si_spiketrains) >= si_n_ident
    /\ Len(si_spiketrains) < si_n
    /\ \E st \in PoissonResults(si_dura, si_dt) :
         si_spiketrains' = Append(si_spiketrains, st)
    /\ si_calls' = Append(si_calls, [fn |-> "poisson_spikes", arg |-> <<>>])
    /\ UNCHANGED <<si_n, si_s, si_sigma, si_dura, si_dt, si_warned, si_n_ident,
                   si_st_ident, si_templates, si_pc>>
    /\ UNCHANGED <<poissonVars, jitterVars, groupVars, binVars>>
    /\ UNCHANGED analysisVars

\* "return spiketrains"
SyncInpReturn ==
    /\ si_pc = "loops"
    /\ Len(si_spiketrains) >= si_n_ident
    /\ Len(si_spiketrains) >= si_n
    /\ si_pc' = "done"
    /\ UNCHANGED <<si_n, si_s, si_sigma, si_dura, si_dt, si_warned, si_n_ident,
                   si_st_ident, si_templates, si_spiketrains, si_calls>>
    /\ UNCHANGED <<poissonVars, jitterVars, groupVars, binVars>>
    /\ UNCHANGED analysisVars

\* ===================================================== SynchronousInputGroup
ConfigureDefaultOne == SDen

\* the value configure_generators gives an out-of-range sync: "sync = 0"
ConfigureDefault == 0

\* a generator object made by sync_inp_gen(n, rate, jitter, dt), before its
\* first value is read: t = 0*second; prev_t = t; iter = n
NewGenerator(n, jitter) ==
    [n |-> n, jitter |-> jitter, t |-> 0, prev_t |-> 0, iter |-> n]

AllShared(n, n_ident) == [i \in 1..n |-> 0]

\* the list configure_generators returns: n_ident references to the one
\* object st_ident (object 0), then one fresh object per remaining position
GeneratorList(n, n_ident) ==
    [i \in 1..n |-> IF i <= n_ident THEN 0 ELSE i - n_ident]

GroupIdle == /\ sg_n = 0
             /\ sg_sync = 0
             /\ sg_jitter = 0
             /\ sg_dt = 0
             /\ sg_warned = FALSE
             /\ sg_n_ident = 0
             /\ sg_gens = <<>>
             /\ sg_spiketrains = <<>>
             /\ sg_log = <<>>

\* __init__ and configure_generators(n, rate, sync, jitter, dt)
Configured(n, given, jitter, dt) ==
    LET sync == IF OutOfRange(given) THEN ConfigureDefault ELSE given
        n_ident == NIdent(n, sync)
    IN /\ sg_n = n
       /\ sg_sync = sync
       /\ sg_jitter = jitter
       /\ sg_dt = dt
       /\ sg_warned = OutOfRange(given)
       /\ sg_n_ident = n_ident
       /\ sg_gens = [g \in 0..(n - n_ident) |->
                       IF g = 0 THEN NewGenerator(n_ident, jitter)
                                ELSE NewGenerator(1, 0)]
       /\ sg_spiketrains = GeneratorList(n, n_ident)
       /\ sg_log = <<>>

GroupInit == \E n \in 0..MaxN, given \in SynchronyFractions,
                jitter \in 0..MaxSigma, dt \in 1..MaxDt :
                Configured(n, given, jitter, dt)

ResumeCountsFromZero(g, drawn, normal, dt) ==
    LET advance == g.iter = g.n
        interval == Clamp(drawn, dt)
        prev_t == IF advance THEN g.t ELSE g.prev_t
        t == IF advance THEN g.t + interval ELSE g.t
        iter == IF advance THEN 0 ELSE g.iter + 1
        jitt_variate == IF g.jitter > 0
                        THEN IF (t + normal) < (prev_t + dt)
                             THEN prev_t + dt - t
                             ELSE normal
                        ELSE 0
    IN [frame |-> [g EXCEPT !.t = t, !.prev_t = prev_t, !.iter = iter],
        yielded |-> t + jitt_variate]

\* the body of sync_inp_gen from one yield to the next, under the given draws
Resume(g, drawn, normal, dt) ==
    LET advance == g.iter = g.n
        interval == Clamp(drawn, dt)
        prev_t == IF advance THEN g.t ELSE g.prev_t
        t == IF advance THEN g.t + interval ELSE g.t
        iter == IF advance THEN 1 ELSE g.iter + 1
        jitt_variate == IF g.jitter > 0
                        THEN IF (t + normal) < (prev_t + dt)
                             THEN prev_t + dt - t
                             ELSE normal
                        ELSE 0
    IN [frame |-> [g EXCEPT !.t = t, !.prev_t = prev_t, !.iter = iter],
        yielded |-> t + jitt_variate]

\* next() on the generator at position pos of the returned list
Read(pos) ==
    /\ Len(sg_log) < MaxReads
    /\ \E drawn \in 1..MaxGenInterval, normal \in (-MaxJit)..MaxJit :
         LET obj == sg_spiketrains[pos]
             step == Resume(sg_gens[obj], drawn, normal, sg_dt)
         IN /\ sg_gens' = [sg_gens EXCEPT ![obj] = step.frame]
            /\ sg_log' = Append(sg_log, [pos |-> pos, value |-> step.yielded])
    /\ UNCHANGED <<sg_n, sg_sync, sg_jitter, sg_dt, sg_warned, sg_n_ident,
                   sg_spiketrains>>
    /\ UNCHANGED <<poissonVars, jitterVars, syncVars, binVars>>
    /\ UNCHANGED analysisVars

ReadAny == \E pos \in 1..Len(sg_spiketrains) : Read(pos)

\* ============================================================== times_to_bin
\* "duration=None" is the empty tuple, a given duration d the tuple <<d>>
None == <<>>

Durations == {None} \cup {<<d>> : d \in 1..MaxDura}

\* divide(spikes, dt).astype('int'): the grid index of every spike
GridIndices(spikes, dt) == [k \in 1..Len(spikes) |-> spikes[k] \div dt]

\* "binlength = max(st)+1" or "binlength = int(duration/dt)"
BinLength(st, dt, duration) ==
    IF duration = None THEN Max(st) + 1 ELSE duration[1] \div dt

\* "if st[-1] > binlength: st = st[st < binlength]"
Truncated(st, binlength) ==
    IF Last(st) > binlength
    THEN SelectSeq(st, LAMBDA index : index < binlength)
    ELSE st

MarkedShifted(length, st) ==
    [p \in 1..length |->
        IF \E k \in 1..Len(st) : st[k] = p THEN 1 ELSE 0]

\* zeros(length) with ones assigned at the 0-based positions st; position
\* p of the array is element p + 1 of the sequence
Marked(length, st) ==
    [p \in 1..length |->
        IF \E k \in 1..Len(st) : st[k] = p - 1 THEN 1 ELSE 0]

\* a whole call: the returned array, or the IndexError of "bintimes[st] = 1"
\* for an index at or beyond the array length
TimesToBin(spikes, dt, duration) ==
    IF Len(spikes) = 0
    THEN IF duration = None
         THEN [raised |-> FALSE, value |-> spikes]
         ELSE [raised |-> FALSE, value |-> Marked(duration[1] \div dt, <<>>)]
    ELSE LET binlength == BinLength(GridIndices(spikes, dt), dt, duration)
             st == Truncated(GridIndices(spikes, dt), binlength)
         IN IF \E k \in 1..Len(st) : st[k] >= binlength
            THEN [raised |-> TRUE, value |-> <<>>]
            ELSE [raised |-> FALSE, value |-> Marked(binlength, st)]

BinIdle == /\ tb_spikes = <<>>
           /\ tb_dt = 0
           /\ tb_duration = None
           /\ tb_bintimes = <<>>
           /\ tb_pc = "idle"

BinInit == /\ tb_spikes \in SpikeTrains(MaxTime, MaxLen)
           /\ tb_dt \in 1..MaxDt
           /\ tb_duration \in Durations
           /\ tb_bintimes = <<>>
           /\ tb_pc = "call"

TimesToBinCall ==
    /\ tb_pc = "call"
    /\ LET returned == TimesToBin(tb_spikes, tb_dt, tb_duration) IN
         /\ tb_bintimes' = returned.value
         /\ tb_pc' = IF returned.raised THEN "error" ELSE "done"
    /\ UNCHANGED <<tb_spikes, tb_dt, tb_duration>>
    /\ UNCHANGED <<poissonVars, jitterVars, syncVars, groupVars>>
    /\ UNCHANGED analysisVars

\* ========================================================== analysis routines
SlopeIdle == /\ fs_spiketrain = <<>>
             /\ fs_dt = 0
             /\ fs_w = 0
             /\ fs_windows = <<>>
             /\ fs_pc = "idle"

NormIdle == /\ nf_spiketrain = <<>>
            /\ nf_dt = 0
            /\ nf_w = 0
            /\ nf_kept = <<>>
            /\ nf_pc = "idle"

Cv2Idle == /\ cv_spiketrain = <<>>
           /\ cv_result = <<0, 1>>
           /\ cv_pc = "idle"

StaIdle == /\ sa_v = <<>>
           /\ sa_spiketrain = <<>>
           /\ sa_w = 0
           /\ sa_dt = 0
           /\ sa_wins = <<>>
           /\ sa_pc = "idle"

\* ====================================================================== PSTH
PsthIdle == /\ ph_spikes = <<>>
            /\ ph_bin = 0
            /\ ph_dt = 0
            /\ ph_duration = None
            /\ ph_psth = <<>>
            /\ ph_pc = "idle"

\* the inputs PSTH accepts: a flat sequence of spike times, or a collection
\* (list, array or the values of a dict) of spike trains
PsthInputs ==
    {[nested |-> FALSE, items |-> st] : st \in SpikeTrains(MaxTime, MaxLen)}
    \cup {[nested |-> TRUE, items |-> rows] :
            rows \in UNION {[1..r -> SpikeTrains(MaxTime, 2)] : r \in 0..MaxRows}}

RECURSIVE Concat(_, _)
Concat(rows, r) == IF r = 0 THEN <<>> ELSE Concat(rows, r - 1) \o rows[r]

\* recursiveflat: a sequence whose first item is a number is returned as it
\* is, a sequence of rows is replaced by the items of its rows
RecursiveFlat(spikes) ==
    IF spikes.nested THEN Concat(spikes.items, Len(spikes.items)) ELSE spikes.items

\* count_nonzero(bitwise_and(flatspikes >= b*bin, flatspikes < (b+1)*bin))
BinSpikes(flatspikes, b, bin) ==
    Cardinality({k \in 1..Len(flatspikes) :
                    flatspikes[k] >= b * bin /\ flatspikes[k] < (b + 1) * bin})

\* "if bin < dt: bin = dt"
BinWidth(bin, dt) == IF bin < dt THEN dt ELSE bin

\* a whole call: the returned counts, or the ValueError of max([]) when the
\* duration has to be inferred from no spike at all
Psth(spikes, bin, dt, duration) ==
    LET width == BinWidth(bin, dt)
        flatspikes == RecursiveFlat(spikes)
    IN IF duration = None /\ Len(flatspikes) = 0
       THEN [raised |-> TRUE, value |-> <<>>]
       ELSE LET dura == IF duration = None THEN Max(flatspikes) + dt
                                          ELSE duration[1]
                nbins == dura \div width
            IN [raised |-> FALSE,
                value |-> [p \in 1..nbins |-> BinSpikes(flatspikes, p - 1, width)]]

PsthInit == /\ ph_spikes \in PsthInputs
            /\ ph_bin \in 1..MaxBin
            /\ ph_dt \in 1..MaxDt
            /\ ph_duration \in Durations
            /\ ph_psth = <<>>
            /\ ph_pc = "call"

PsthCall ==
    /\ ph_pc = "call"
    /\ LET returned == Psth(ph_spikes, ph_bin, ph_dt, ph_duration) IN
         /\ ph_psth' = returned.value
         /\ ph_pc' = IF returned.raised THEN "error" ELSE "done"
    /\ UNCHANGED <<ph_spikes, ph_bin, ph_dt, ph_duration>>
    /\ UNCHANGED <<slopeVars, normVars, cv2Vars, staVars>>
    /\ UNCHANGED generatorVars

\* ============================================================== firing_slope
\* The potentials mem[...] are left out: what is modelled of a call is the
\* path it takes, the windows it divides by and the size of what it returns.

\* insert(diff(spiketrain), 0, spiketrain[0]) of a non-empty train
PrecedingIntervals(spiketrain) == <<spiketrain[1]>> \o Diff(spiketrain)

\* "w = max(w, dt)"
SlopeWindow(w, dt) == IF w > dt THEN w ELSE dt

\* array([min(w, i*second-dt) for i in intervals])
Windows(intervals, w, dt) ==
    [i \in 1..Len(intervals) |->
        IF w < intervals[i] - dt THEN w ELSE intervals[i] - dt]

\* a whole call: (0, array([])) for fewer than 2 spikes, else one slope
\* (mem[st_dt] - mem[st_dt - w_dt]) / windows per spike
FiringSlope(spiketrain, dt, w) ==
    IF Len(spiketrain) < 2
    THEN [neutral |-> TRUE, windows |-> <<>>, slopes |-> 0]
    ELSE LET windows == Windows(PrecedingIntervals(spiketrain),
                                SlopeWindow(w, dt), dt)
         IN [neutral |-> FALSE, windows |-> windows, slopes |-> Len(windows)]

SlopeInit == /\ fs_spiketrain \in SpikeTrains(MaxTime, MaxLen)
             /\ fs_dt \in 1..MaxDt
             /\ fs_w \in 1..MaxW
             /\ fs_windows = <<>>
             /\ fs_pc = "call"

FiringSlopeCall ==
    /\ fs_pc = "call"
    /\ LET returned == FiringSlope(fs_spiketrain, fs_dt, fs_w) IN
         /\ fs_windows' = returned.windows
         /\ fs_pc' = IF returned.neutral THEN "neutral" ELSE "done"
    /\ UNCHANGED <<fs_spiketrain, fs_dt, fs_w>>
    /\ UNCHANGED <<psthVars, normVars, cv2Vars, staVars>>
    /\ UNCHANGED generatorVars

\* ========================================================= norm_firing_slope
\* "spiketrain[spiketrain > w]"
AfterWindow(spiketrain, w) == SelectSeq(spiketrain, LAMBDA t : t > w)

\* a whole call, by the path it takes:
\*   "neutral"    return 0, array([])                          (line 418)
\*   "IndexError" spiketrain[0] of a train left empty          (line 421)
\*   "nan"        mean(slopes_normed) of an empty array: the returned mean
\*                is NaN, the returned vector is empty         (line 439)
\*   "computed"   one normalised slope per remaining interval
NormFiringSlope(spiketrain, dt, w) ==
    LET window == IF w < dt THEN dt ELSE w IN
      IF Len(spiketrain) < 2
      THEN [path |-> "neutral", kept |-> spiketrain, slopes |-> 0]
      ELSE LET kept == AfterWindow(spiketrain, window)
               raw == FiringSlope(kept, dt, window)
           IN IF Len(kept) = 0
              THEN [path |-> "IndexError", kept |-> kept, slopes |-> 0]
              ELSE IF Len(Diff(kept)) = 0
                   THEN [path |-> "nan", kept |-> kept, slopes |-> 0]
                   ELSE [path |-> "computed", kept |-> kept,
                         slopes |-> raw.slopes - 1]

NormInit == /\ nf_spiketrain \in SpikeTrains(MaxTime, MaxLen)
            /\ nf_dt \in 1..MaxDt
            /\ nf_w \in 1..MaxW
            /\ nf_kept = <<>>
            /\ nf_pc = "call"

NormFiringSlopeCall ==
    /\ nf_pc = "call"
    /\ LET returned == NormFiringSlope(nf_spiketrain, nf_dt, nf_w) IN
         /\ nf_kept' = returned.kept
         /\ nf_pc' = returned.path
    /\ UNCHANGED <<nf_spiketrain, nf_dt, nf_w>>
    /\ UNCHANGED <<psthVars, slopeVars, cv2Vars, staVars>>
    /\ UNCHANGED generatorVars

\* ======================================================================= CV2
\* Fractions are pairs <<numerator, denominator>> with a positive denominator.
RatAdd(x, y) == <<x[1] * y[2] + y[1] * x[2], x[2] * y[2]>>

RatEq(x, y) == x[1] * y[2] = y[1] * x[2]

Abs(x) == IF x < 0 THEN -x ELSE x

RECURSIVE MiTotalSigned(_, _)
MiTotalSigned(isi, passes) ==
    IF passes = 0
    THEN <<0, 1>>
    ELSE RatAdd(MiTotalSigned(isi, passes - 1),
                <<isi[passes] - isi[passes + 1], isi[passes] + isi[passes + 1]>>)

\* mi_total after the passes i = 0 .. passes-1 of the loop:
\* mi_total = mi_total + abs(isi[i]-isi[i+1])/(isi[i]+isi[i+1])
RECURSIVE MiTotal(_, _)
MiTotal(isi, passes) ==
    IF passes = 0
    THEN <<0, 1>>
    ELSE RatAdd(MiTotal(isi, passes - 1),
                <<Abs(isi[passes] - isi[passes + 1]), isi[passes] + isi[passes + 1]>>)

\* a whole call: 0 when there is no interval, else mi_total*2/N
Cv2(spiketrain) ==
    LET isi == Diff(spiketrain)
        N == Len(isi)
    IN IF N = 0
       THEN <<0, 1>>
       ELSE LET mi_total == MiTotal(isi, N - 1)
            IN <<mi_total[1] * 2, mi_total[2] * N>>

Cv2Init == /\ cv_spiketrain \in SpikeTrains(MaxTime + 2, MaxLen + 1)
           /\ cv_result = <<0, 1>>
           /\ cv_pc = "call"

Cv2Call ==
    /\ cv_pc = "call"
    /\ cv_result' = Cv2(cv_spiketrain)
    /\ cv_pc' = "done"
    /\ UNCHANGED cv_spiketrain
    /\ UNCHANGED <<psthVars, slopeVars, normVars, staVars>>
    /\ UNCHANGED generatorVars

\* ======================================================================= sta
\* v[a:b] for 0 <= a: the samples at the 0-based positions a .. b-1 that exist
Slice(v, a, b) == SubSeq(v, a + 1, IF b < Len(v) THEN b ELSE Len(v))

\* zeros(n)
Zeros(n) == [j \in 1..n |-> 0]

StaWindowPadRight(v, t_d, w_d) ==
    IF w_d < t_d
    THEN Slice(v, t_d - w_d, t_d)
    ELSE Slice(v, 0, t_d) \o Zeros(w_d - t_d)

\* the window of one spike: v[t_d-w_d:t_d], or
\* append(zeros(w_d-t_d), v[:t_d]) when the spike is not later than w
StaWindow(v, t_d, w_d) ==
    IF w_d < t_d
    THEN Slice(v, t_d - w_d, t_d)
    ELSE Zeros(w_d - t_d) \o Slice(v, 0, t_d)

\* a whole call, by the path it takes:
\*   "empty"  sta_avg, sta_std and sta_wins are all array([])  (lines 475-479)
\*   "error"  "sta_wins[i,:] = ..." is given a window that does not hold w_d
\*            samples (ValueError)
\*   "done"   the matrix sta_wins, returned with its column mean and std
Sta(v, spiketrain, w, dt) ==
    IF Len(spiketrain) <= 1
    THEN [path |-> "empty", wins |-> <<>>]
    ELSE LET w_d == w \div dt
             wins == [i \in 1..Len(spiketrain) |->
                        StaWindow(v, spiketrain[i] \div dt, w_d)]
         IN IF \E i \in 1..Len(wins) : Len(wins[i]) # w_d
            THEN [path |-> "error", wins |-> <<>>]
            ELSE [path |-> "done", wins |-> wins]

Traces == UNION {[1..n -> 1..MaxPotential] : n \in 0..MaxTrace}

StaInit == /\ sa_v \in Traces
           /\ sa_spiketrain \in SpikeTrains(MaxTime, MaxLen)
           /\ sa_w \in 1..MaxW
           /\ sa_dt \in 1..MaxDt
           /\ sa_wins = <<>>
           /\ sa_pc = "call"

StaCall ==
    /\ sa_pc = "call"
    /\ LET returned == Sta(sa_v, sa_spiketrain, sa_w, sa_dt) IN
         /\ sa_wins' = returned.wins
         /\ sa_pc' = returned.path
    /\ UNCHANGED <<sa_v, sa_spiketrain, sa_w, sa_dt>>
    /\ UNCHANGED <<psthVars, slopeVars, normVars, cv2Vars>>
    /\ UNCHANGED generatorVars

\* ==================================================================== claims

\* C1: when dura > dt > 0, the list poisson_spikes returns is strictly
\* increasing, has every gap >= dt, starts at or after dt and ends before
\* dura, whatever intervals are drawn.
PoissonTrainWellFormed ==
    (ps_pc = "done" /\ ps_dura > ps_dt /\ ps_dt > 0) =>
        /\ StrictlyIncreasing(ps_spiketrain)
        /\ GapsAtLeast(ps_spiketrain, ps_dt)
        /\ Len(ps_spiketrain) > 0 => /\ ps_spiketrain[1] >= ps_dt
                                     /\ Last(ps_spiketrain) < ps_dura

\* a returned train of three spikes whose first interval and one gap were
\* clamped up to dt = 2
PoissonTrainWitness ==
    /\ ps_pc = "done"
    /\ ps_dt = 2
    /\ Len(ps_spiketrain) >= 2
    /\ ps_spiketrain[1] = ps_dt
    /\ ps_spiketrain[2] - ps_spiketrain[1] = ps_dt

\* C2: add_gauss_jitter returns a train with exactly as many spikes as its
\* input train, for every jitter sigma >= 0.
JitterKeepsSpikeCount ==
    gj_pc = "done" => Len(gj_result) = Len(gj_spiketrain)

\* number of intervals the loop still has to enlarge
NumTooClose(intervals, dt) == Cardinality({i \in 1..Len(intervals) : intervals[i] < dt})

\* C3: with at least two spikes and sigma > 0 the spacing loop terminates
\* (every correction lowers the number of intervals below dt, so there are
\* at most len(intervals) corrections), and the train returned on exit has
\* every gap >= dt and is strictly increasing.
JitterLoopConverges ==
    /\ [][(gj_pc = "loop" /\ gj_pc' = "loop") =>
             NumTooClose(gj_intervals', gj_dt) < NumTooClose(gj_intervals, gj_dt)]_vars
    /\ []((gj_pc = "loop" /\ Len(gj_spiketrain) >= 2) =>
             (ENABLED JitterCorrect \/ ENABLED JitterReturn))
    /\ []((gj_pc = "done" /\ gj_jitter > 0) =>
             /\ GapsAtLeast(gj_result, gj_dt)
             /\ StrictlyIncreasing(gj_result))

\* a returned train with two gaps, one of which the loop had to enlarge
JitterLoopWitness ==
    /\ gj_pc = "done"
    /\ gj_jitter > 0
    /\ Len(gj_spiketrain) >= 3
    /\ \E i \in 2..Len(gj_intervals) :
         /\ Diff(gj_jspiketrain)[i] < gj_dt
         /\ gj_intervals[i] >= gj_dt

\* C4: for s in [0,1] sync_inp generates exactly one template and returns
\* exactly n trains in order: the first k = floor(n*s) each from its own
\* call of add_gauss_jitter on that template, the remaining n-k each from
\* its own call of poisson_spikes, with no jitter applied.
SyncInpComposition ==
    (si_pc \in {"done", "error"} /\ ~si_warned) =>
        /\ si_pc = "done"
        /\ si_templates = 1
        /\ Len(si_spiketrains) = si_n
        /\ Len(si_calls) = si_n
        /\ \A i \in 1..si_n :
             si_calls[i] = IF i <= NIdent(si_n, si_s)
                           THEN [fn |-> "add_gauss_jitter", arg |-> si_st_ident]
                           ELSE [fn |-> "poisson_spikes", arg |-> <<>>]

\* C5 as stated: an out-of-range s becomes 0 in sync_inp (so k = 0) and 1
\* in configure_generators (so k = n).
RangeDefaultsAsStated ==
    /\ (si_pc \notin {"idle", "call"} /\ si_warned) =>
           (si_s = 0 /\ si_n_ident = 0)
    /\ sg_warned => (sg_sync = SDen /\ sg_n_ident = sg_n)

\* C5 (amended): an out-of-range s is replaced at the range check, which
\* raises nothing: by 1 in sync_inp, which then computes k = n, and by 0 in
\* configure_generators, which then computes k = 0 and returns n unshared
\* generators.
RangeDefaults ==
    /\ (si_pc \notin {"idle", "call"} /\ si_warned) =>
           (si_s = SDen /\ si_n_ident = si_n)
    /\ sg_warned => (sg_sync = 0 /\ sg_n_ident = 0 /\ Len(sg_spiketrains) = sg_n)

\* both variants were given the same out-of-range s for two or more trains:
\* sync_inp returned n trains all made from the template, the group holds
\* n unshared generators
RangeDefaultsWitness ==
    /\ si_pc = "done"
    /\ si_warned
    /\ si_n >= 2
    /\ \A i \in 1..si_n : si_calls[i].fn = "add_gauss_jitter"
    /\ sg_warned
    /\ sg_n = si_n
    /\ \A i \in 1..sg_n : sg_spiketrains[i] # 0

\* positions of the returned list that hold the shared generator st_ident
Linked(pos) == pos <= sg_n_ident

\* number of values read so far from the shared generator
SharedReads(log) == Cardinality({r \in 1..Len(log) : Linked(log[r].pos)})

\* C6: with multiplicity k >= 1 the base time t of the shared generator
\* moves to a new interval on its reads number 1, k+1, 2k+1, ... and stays
\* on every other read, so each base time serves exactly k consecutive
\* reads; each read yields t plus its own variate.
SharedAdvancesEveryKth ==
    [][(sg_n_ident >= 1 /\ sg_log' # sg_log /\ Linked(Last(sg_log').pos)) =>
         LET number == SharedReads(sg_log')
             before == sg_gens[0]
             after == sg_gens'[0]
         IN /\ (number - 1) % sg_n_ident = 0 =>
                 /\ after.t >= before.t + sg_dt
                 /\ after.prev_t = before.t
            /\ (number - 1) % sg_n_ident # 0 =>
                 /\ after.t = before.t
                 /\ after.prev_t = before.prev_t
            /\ sg_jitter = 0 => Last(sg_log').value = after.t
            /\ Last(sg_log').value >= after.prev_t + sg_dt]_vars

\* three reads of a generator shared by two positions: the first base time
\* was used twice, with two different values read, and the third read moved
\* to the second base time
SharedAdvancesWitness ==
    /\ sg_n_ident = 2
    /\ Len(sg_log) = 3
    /\ \A r \in 1..3 : Linked(sg_log[r].pos)
    /\ sg_gens[0].iter = 1
    /\ sg_gens[0].t > sg_gens[0].prev_t
    /\ sg_gens[0].prev_t > 0
    /\ sg_log[1].value # sg_log[2].value

\* the frame (t, prev_t, iter) behind position pos of the returned list
FrameAt(gens, pos) == gens[sg_spiketrains[pos]]

\* C7 as stated: reading position i leaves the state of every other
\* position j unchanged.
IndependentlyAdvanceable ==
    [][sg_log' # sg_log =>
         \A j \in 1..sg_n :
            j # Last(sg_log').pos => FrameAt(sg_gens', j) = FrameAt(sg_gens, j)]_vars

\* C7 (amended): reading position i leaves the state of position j
\* unchanged unless i and j are both among the first k positions; those k
\* positions hold one and the same generator object, so a read at any of
\* them changes the state of all of them.
AdvanceableUnlessLinked ==
    [][sg_log' # sg_log =>
         LET i == Last(sg_log').pos IN
           \A j \in 1..sg_n :
              j # i =>
                IF Linked(i) /\ Linked(j)
                THEN /\ sg_spiketrains[i] = sg_spiketrains[j]
                     /\ FrameAt(sg_gens', j) # FrameAt(sg_gens, j)
                ELSE FrameAt(sg_gens', j) = FrameAt(sg_gens, j)]_vars

\* a group of two linked and one independent position in which a linked and
\* the independent position have both been read
AdvanceableWitness ==
    /\ sg_n = 3
    /\ sg_n_ident = 2
    /\ \E a, b \in 1..Len(sg_log) : sg_log[a].pos = 1 /\ sg_log[b].pos = 3
    /\ sg_gens[0].t > 0
    /\ sg_gens[1].t > 0

\* the reads so far took one value from each position per round, in order
RoundRobin(log, n) == \A r \in 1..Len(log) : log[r].pos = ((r - 1) % n) + 1

\* C8: read round-robin, the successive values obtained for any one
\* position differ by at least dt, for every jitter and every k.
UnboundedTrainsSpaced ==
    RoundRobin(sg_log, sg_n) =>
        \A a, b \in 1..Len(sg_log) :
           (a < b /\ sg_log[a].pos = sg_log[b].pos) =>
               sg_log[b].value - sg_log[a].value >= sg_dt

\* C9: for a non-empty train and a given duration times_to_bin completes
\* and returns the 0/1 vector over the grid of int(duration/dt) bins whose
\* bin i is 1 exactly when some spike has grid index i; spikes with an
\* index at or beyond the grid length are dropped without failure.
TimesToBinPresence ==
    (tb_pc \in {"done", "error"} /\ Len(tb_spikes) > 0 /\ tb_duration # None) =>
        /\ tb_pc = "done"
        /\ Len(tb_bintimes) = tb_duration[1] \div tb_dt
        /\ \A p \in 1..Len(tb_bintimes) :
             tb_bintimes[p] = IF \E k \in 1..Len(tb_spikes) :
                                     tb_spikes[k] \div tb_dt = p - 1
                              THEN 1 ELSE 0

\* number of 1 entries of a bin vector
Ones(bintimes) == Cardinality({p \in 1..Len(bintimes) : bintimes[p] = 1})

\* no two spikes fall in the same bin
NoSharedBin(spikes, dt) ==
    \A j, k \in 1..Len(spikes) : j # k => spikes[j] \div dt # spikes[k] \div dt

\* every spike has a grid index inside the grid of the given duration
AllInsideGrid(spikes, dt, duration) ==
    duration # None => \A k \in 1..Len(spikes) : spikes[k] \div dt < duration[1] \div dt

\* C10 as stated: the returned vector has at most as many ones as the train
\* has spikes, and exactly as many whenever no two spikes share a bin.
BinCountAsStated ==
    tb_pc = "done" =>
        /\ Ones(tb_bintimes) <= Len(tb_spikes)
        /\ NoSharedBin(tb_spikes, tb_dt) => Ones(tb_bintimes) = Len(tb_spikes)

\* C10 (amended): the returned vector has at most as many ones as the train
\* has spikes, and exactly as many whenever no two spikes share a bin and
\* no spike has a grid index at or beyond the grid length of a given
\* duration.
BinCount ==
    tb_pc = "done" =>
        /\ Ones(tb_bintimes) <= Len(tb_spikes)
        /\ (NoSharedBin(tb_spikes, tb_dt)
              /\ AllInsideGrid(tb_spikes, tb_dt, tb_duration)) =>
               Ones(tb_bintimes) = Len(tb_spikes)

\* three spikes in three different bins, all inside the grid of a given
\* duration: three ones
BinCountWitness ==
    /\ tb_pc = "done"
    /\ tb_duration # None
    /\ Len(tb_spikes) = 3
    /\ NoSharedBin(tb_spikes, tb_dt)
    /\ AllInsideGrid(tb_spikes, tb_dt, tb_duration)
    /\ Ones(tb_bintimes) = 3

\* C11: with the duration left unspecified PSTH loses no spike: the bins
\* are max(bin, dt) wide, every spike of the flattened input is counted in
\* exactly one bin, and the counts add up to the number of spikes.
PsthLosesNoSpike ==
    (ph_pc = "done" /\ ph_duration = None) =>
        LET flatspikes == RecursiveFlat(ph_spikes)
            width == IF ph_bin > ph_dt THEN ph_bin ELSE ph_dt
        IN /\ SumTo(ph_psth, Len(ph_psth)) = Len(flatspikes)
           /\ \A k \in 1..Len(flatspikes) :
                 /\ flatspikes[k] \div width + 1 \in 1..Len(ph_psth)
                 /\ ph_psth[flatspikes[k] \div width + 1] >= 1

\* C12: for a train of at least 2 spikes with first spike >= dt and all
\* gaps >= dt, the window firing_slope uses for each spike is
\* min(max(w, dt), preceding interval - dt) and is never below dt, so no
\* slope is divided by zero.
SlopeWindowsAtLeastDt ==
    (/\ fs_pc = "done"
     /\ Len(fs_spiketrain) >= 2
     /\ fs_spiketrain[1] >= fs_dt
     /\ GapsAtLeast(fs_spiketrain, fs_dt)) =>
        \A i \in 1..Len(fs_spiketrain) :
           LET preceding == IF i = 1 THEN fs_spiketrain[1]
                                     ELSE fs_spiketrain[i] - fs_spiketrain[i - 1]
               capped == IF fs_w > fs_dt THEN fs_w ELSE fs_dt
           IN /\ fs_windows[i] = IF capped < preceding - fs_dt
                                 THEN capped ELSE preceding - fs_dt
              /\ fs_windows[i] >= fs_dt
              /\ fs_windows[i] # 0

\* C13: norm_firing_slope never fails on insufficient data: whenever fewer
\* than 2 spikes are given, or fewer than 2 remain once the spikes before w
\* are discarded, it returns the neutral result (mean 0, empty vector).
NormSlopeNeutralOnFewSpikes ==
    (/\ nf_pc \notin {"idle", "call"}
     /\ \/ Len(nf_spiketrain) < 2
        \/ Len(AfterWindow(nf_spiketrain, IF nf_w < nf_dt THEN nf_dt ELSE nf_w)) < 2) =>
        nf_pc = "neutral"

\* the terms 2*|isi_i - isi_{i+1}| / (isi_i + isi_{i+1}) of the first
\* `pairs` adjacent pairs, added up
RECURSIVE PairTerms(_, _)
PairTerms(isi, pairs) ==
    IF pairs = 0
    THEN <<0, 1>>
    ELSE RatAdd(PairTerms(isi, pairs - 1),
                <<2 * Abs(isi[pairs] - isi[pairs + 1]), isi[pairs] + isi[pairs + 1]>>)

\* C14 as stated: for a train with at least 2 ISIs, CV2 returns the mean
\* over the adjacent ISI pairs of 2*|isi_i - isi_{i+1}| / (isi_i + isi_{i+1}):
\* the sum of the terms divided by the number of adjacent pairs.
Cv2IsMeanOverPairs ==
    (cv_pc = "done" /\ Len(Diff(cv_spiketrain)) >= 2) =>
        LET isi == Diff(cv_spiketrain)
            pairs == Len(isi) - 1
            total == PairTerms(isi, pairs)
        IN RatEq(cv_result, <<total[1], total[2] * pairs>>)

\* C14 (amended): for a train with N >= 2 ISIs, CV2 returns the sum over the
\* N-1 adjacent ISI pairs of 2*|isi_i - isi_{i+1}| / (isi_i + isi_{i+1})
\* divided by N, the number of ISIs.
Cv2IsSumOverIsiCount ==
    (cv_pc = "done" /\ Len(Diff(cv_spiketrain)) >= 2) =>
        LET isi == Diff(cv_spiketrain)
            total == PairTerms(isi, Len(isi) - 1)
        IN RatEq(cv_result, <<total[1], total[2] * Len(isi)>>)

\* CV2 of a train of three unequal, increasing ISIs 1, 2, 3:
\* 2*(1/3 + 1/5)/3 = 16/45
Cv2Witness ==
    /\ cv_pc = "done"
    /\ cv_spiketrain = <<0, 1, 3, 6>>
    /\ RatEq(cv_result, <<16, 45>>)

\* every spike has a grid index that is a position of the trace
InsideTrace(spiketrain, dt, v) ==
    \A i \in 1..Len(spiketrain) : spiketrain[i] \div dt < Len(v)

\* C15: for a train of at least 2 spikes inside the trace, sta returns one
\* row per spike, each of int(w/dt) samples: the samples just before the
\* spike's grid index int(t/dt), with zeros in the leading positions for which
\* the trace has no sample; with 0 or 1 spikes the results are empty.
StaWindowsPerSpike ==
    sa_pc \notin {"idle", "call"} =>
        IF Len(sa_spiketrain) <= 1
        THEN sa_pc = "empty" /\ sa_wins = <<>>
        ELSE InsideTrace(sa_spiketrain, sa_dt, sa_v) =>
               /\ sa_pc = "done"
               /\ Len(sa_wins) = Len(sa_spiketrain)
               /\ \A i \in 1..Len(sa_spiketrain) :
                    /\ Len(sa_wins[i]) = sa_w \div sa_dt
                    /\ \A j \in 1..(sa_w \div sa_dt) :
                         LET position == (sa_spiketrain[i] \div sa_dt)
                                           - (sa_w \div sa_dt) + (j - 1)
                         IN sa_wins[i][j] = IF position < 0 THEN 0
                                            ELSE sa_v[position + 1]

\* three spikes inside the trace with a window of two samples: one spike
\* has a single sample before it (a row of one zero and that sample), one
\* has more than two (a row of trace samples only)
StaWitness ==
    /\ sa_pc = "done"
    /\ Len(sa_spiketrain) = 3
    /\ sa_w \div sa_dt = 2
    /\ InsideTrace(sa_spiketrain, sa_dt, sa_v)
    /\ \E i \in 1..3 : /\ sa_spiketrain[i] \div sa_dt = 1
                       /\ sa_wins[i] = <<0, sa_v[1]>>
    /\ \E i \in 1..3 : /\ sa_spiketrain[i] \div sa_dt = 3
                       /\ sa_wins[i] = <<sa_v[2], sa_v[3]>>

\* C16: for every dura > 0 and dt > 0, poisson_spikes eventually returns,
\* and what it returns is a non-empty train, provided the random source does
\* not forever withhold a draw that the retry loop accepts.
PoissonTerminatesNonEmpty ==
    <>(ps_pc = "done" /\ Len(ps_spiketrain) > 0)

\* ============================================================ specifications
AnalysisIdle == PsthIdle /\ SlopeIdle /\ NormIdle /\ Cv2Idle /\ StaIdle
GeneratorsIdle == PoissonIdle /\ JitterIdle /\ SyncInpIdle /\ GroupIdle /\ BinIdle
InitPoisson == PoissonInit /\ JitterIdle /\ SyncInpIdle /\ GroupIdle /\ BinIdle /\ AnalysisIdle
NextPoisson == PoissonFirst \/ PoissonAccumulate \/ PoissonReturn
SpecPoisson == InitPoisson /\ [][NextPoisson]_vars

\* a pass of the retry loop whose clamped draw is < dura
PoissonFirstFits == PoissonFirst /\ ps_pc' = "accum"

\* poisson_spikes run to completion: the loops keep taking passes, and the
\* random source does not forever withhold a first interval that fits
\* whenever one can be drawn
FairSpecPoisson == /\ InitPoisson
                   /\ [][NextPoisson]_vars
                   /\ WF_vars(PoissonFirstFits)
                   /\ WF_vars(PoissonAccumulate)
                   /\ WF_vars(PoissonReturn)

InitJitter == JitterInit /\ PoissonIdle /\ SyncInpIdle /\ GroupIdle /\ BinIdle /\ AnalysisIdle
NextJitter == JitterIdentity \/ JitterPerturb \/ JitterRaise \/ JitterCorrect \/ JitterReturn
SpecJitter == InitJitter /\ [][NextJitter]_vars

InitSyncInp == SyncInpInit /\ PoissonIdle /\ JitterIdle /\ GroupIdle /\ BinIdle /\ AnalysisIdle
NextSyncInp == SyncInpTemplate \/ SyncInpJitter \/ SyncInpPoisson \/ SyncInpReturn
SpecSyncInp == InitSyncInp /\ [][NextSyncInp]_vars

InitGroup == GroupInit /\ PoissonIdle /\ JitterIdle /\ SyncInpIdle /\ BinIdle /\ AnalysisIdle
NextGroup == ReadAny
SpecGroup == InitGroup /\ [][NextGroup]_vars

\* both composers given the same arguments; sync_inp then runs
InitBoth == /\ SyncInpInit
            /\ Configured(si_n, si_s, si_sigma, si_dt)
            /\ PoissonIdle /\ JitterIdle /\ BinIdle /\ AnalysisIdle
SpecBoth == InitBoth /\ [][NextSyncInp]_vars

InitBin == BinInit /\ PoissonIdle /\ JitterIdle /\ SyncInpIdle /\ GroupIdle /\ AnalysisIdle
NextBin == TimesToBinCall
SpecBin == InitBin /\ [][NextBin]_vars

InitPsth == PsthInit /\ GeneratorsIdle /\ SlopeIdle /\ NormIdle /\ Cv2Idle /\ StaIdle
NextPsth == PsthCall
SpecPsth == InitPsth /\ [][NextPsth]_vars

InitSlope == SlopeInit /\ GeneratorsIdle /\ PsthIdle /\ NormIdle /\ Cv2Idle /\ StaIdle
NextSlope == FiringSlopeCall
SpecSlope == InitSlope /\ [][NextSlope]_vars

InitNorm == NormInit /\ GeneratorsIdle /\ PsthIdle /\ SlopeIdle /\ Cv2Idle /\ StaIdle
NextNorm == NormFiringSlopeCall
SpecNorm == InitNorm /\ [][NextNorm]_vars

InitCv2 == Cv2Init /\ GeneratorsIdle /\ PsthIdle /\ SlopeIdle /\ NormIdle /\ StaIdle
NextCv2 == Cv2Call
SpecCv2 == InitCv2 /\ [][NextCv2]_vars

InitSta == StaInit /\ GeneratorsIdle /\ PsthIdle /\ SlopeIdle /\ NormIdle /\ Cv2Idle
NextSta == StaCall
SpecSta == InitSta /\ [][NextSta]_vars

====
